---- MODULE Spec2Model ----
(***************************************************************************)
(* Model of column_boxes (multi_column.py): the column detection of one    *)
(* page.  Rectangles are integer rectangles (fitz.IRect); a page is a list *)
(* of text blocks, a list of image rectangles and a width.  One behaviour  *)
(* is one call of column_boxes: content identification, right extension,   *)
(* the join loop (one step per remaining bbox) and the final cleaning.     *)
(***************************************************************************)
EXTENDS Integers, Sequences, FiniteSets, TLC

(* ---------------------------------------------------------------------- *)
(* Bounds of the model                                                     *)
(* ---------------------------------------------------------------------- *)
\* most blocks on a page of plain horizontal text
MaxBlocks == 3

\* x coordinates of a two-column page with a gutter and a right margin:
\* left column 0..1, right column 2..3; the page is 4 wide
XS == 0 .. 4
\* y coordinates: neighbours are within the row tolerance, others are not
YS == {0, 6, 12, 18}

(* ---------------------------------------------------------------------- *)
(* fitz.IRect                                                              *)
(* ---------------------------------------------------------------------- *)
Rect(a, b, c, d) == [x0 |-> a, y0 |-> b, x1 |-> c, y1 |-> d]

\* the placeholder stored in a list slot whose bbox was consumed
None == Rect(-1, -1, -1, -1)

\* fitz.EMPTY_IRECT(): the start value of a union
EMPTY_IRECT == Rect(2147483520, 2147483520, -2147483647 - 1, -2147483647 - 1)

Min(a, b) == IF a <= b THEN a ELSE b
Max(a, b) == IF a >= b THEN a ELSE b
Abs(a) == IF a < 0 THEN -a ELSE a

is_empty(r) == r.x0 >= r.x1 \/ r.y0 >= r.y1

\* a & b
rect_and(a, b) ==
    IF is_empty(b) THEN b
    ELSE IF is_empty(a) THEN a
    ELSE Rect(Max(a.x0, b.x0), Max(a.y0, b.y0), Min(a.x1, b.x1), Min(a.y1, b.y1))

\* a | b
rect_or(a, b) ==
    IF is_empty(b) THEN a
    ELSE IF is_empty(a) THEN b
    ELSE Rect(Min(a.x0, b.x0), Min(a.y0, b.y0), Max(a.x1, b.x1), Max(a.y1, b.y1))

\* bb in bbox
rect_contains(bbox, bb) ==
    /\ bbox.x0 <= bb.x0 /\ bb.x0 <= bb.x1 /\ bb.x1 <= bbox.x1
    /\ bbox.y0 <= bb.y0 /\ bb.y0 <= bb.y1 /\ bb.y1 <= bbox.y1


(* ---------------------------------------------------------------------- *)
(* State                                                                   *)
(* ---------------------------------------------------------------------- *)
VARIABLES
    page,           \* input: [width, images, blocks]
    no_image_text,  \* input: the option of the same name
    pc,             \* position in column_boxes
    img_bboxes,     \* image bboxes of the page
    vert_bboxes,    \* bboxes of non-horizontal text
    sorted_bboxes,  \* text bboxes after the sort by (top, left)
    ext_bboxes,     \* text bboxes returned by extend_right
    bboxes,         \* the remaining old bboxes of the join loop (consumed: None)
    i,              \* index of the join loop (1-based)
    nblocks,        \* the new blocks, as handed to clean_nblocks
    calls,          \* the calls of can_extend made by the last step, with their results
    rows,           \* the segments clean_nblocks sorted, as <<first, last>>
    result          \* the returned list

vars == <<page, no_image_text, pc, img_bboxes, vert_bboxes, sorted_bboxes,
          ext_bboxes, bboxes, i, nblocks, calls, rows, result>>

(* ---------------------------------------------------------------------- *)
(* Helpers of column_boxes                                                 *)
(* ---------------------------------------------------------------------- *)
RECURSIVE intersects_from(_, _, _)
intersects_from(bb, list, k) ==
    IF k > Len(list) THEN FALSE
    ELSE IF ~is_empty(rect_and(bb, list[k])) THEN TRUE
    ELSE intersects_from(bb, list, k + 1)

\* True if a bbox of the list intersects bb
intersects_bboxes(bb, list) == intersects_from(bb, list, 1)

RECURSIVE in_bbox_from(_, _, _)
in_bbox_from(bb, list, k) ==
    IF k > Len(list) THEN FALSE
    ELSE IF rect_contains(list[k], bb) THEN TRUE
    ELSE in_bbox_from(bb, list, k + 1)

\* True if a bbox of the list contains bb
in_bbox(bb, list) == in_bbox_from(bb, list, 1)

RECURSIVE can_extend_from(_, _, _, _, _)
can_extend_from(temp, bb, bboxlist, vert, k) ==
    IF k > Len(bboxlist) THEN TRUE
    ELSE IF /\ ~intersects_bboxes(temp, vert)
            /\ (bboxlist[k] = None \/ bboxlist[k] = bb
                \/ is_empty(rect_and(temp, bboxlist[k])))
         THEN can_extend_from(temp, bb, bboxlist, vert, k + 1)
         ELSE FALSE

\* can_extend with vertical text as an excuse instead of an obstacle
can_extend_escape(temp, bb, bboxlist, vert) ==
    \A k \in 1 .. Len(bboxlist) :
        \/ intersects_bboxes(temp, vert)
        \/ bboxlist[k] = None \/ bboxlist[k] = bb
        \/ is_empty(rect_and(temp, bboxlist[k]))

can_extend(temp, bb, bboxlist, vert) == can_extend_from(temp, bb, bboxlist, vert, 1)

(* ---------------------------------------------------------------------- *)
(* 1. Identify content                                                     *)
(* ---------------------------------------------------------------------- *)
\* the union of the bboxes of the lines with more than one character
RECURSIVE line_union(_, _, _)
line_union(lines, k, srect) ==
    IF k > Len(lines) THEN srect
    ELSE line_union(lines, k + 1,
                    IF lines[k].text > 1 THEN rect_or(srect, lines[k].bbox) ELSE srect)

\* the loop over the blocks of the page: [vert, bboxes]
RECURSIVE make_bboxes(_, _, _, _, _)
make_bboxes(blocks, k, imgs, nit, acc) ==
    IF k > Len(blocks) THEN acc
    ELSE LET b == blocks[k]
             srect == line_union(b.lines, 1, EMPTY_IRECT)
             next ==
                 IF nit /\ in_bbox(b.bbox, imgs) THEN acc
                 ELSE IF Len(b.lines) = 0 THEN acc
                 ELSE IF b.lines[1].dir # <<1, 0>>
                      THEN [acc EXCEPT !.vert = Append(@, b.bbox)]
                 ELSE IF ~is_empty(srect)
                      THEN [acc EXCEPT !.bboxes = Append(@, srect)]
                 ELSE acc
         IN  make_bboxes(blocks, k + 1, imgs, nit, next)

\* the key (k.y0, k.x0) of the sort of the text bboxes
top_left_le(a, b) == a.y0 < b.y0 \/ (a.y0 = b.y0 /\ a.x0 <= b.x0)

\* list.sort is stable: b goes behind every element whose key is not larger
RECURSIVE insert_top_left(_, _)
insert_top_left(sorted, b) ==
    IF sorted = <<>> THEN <<b>>
    ELSE IF top_left_le(sorted[Len(sorted)], b) THEN Append(sorted, b)
    ELSE Append(insert_top_left(SubSeq(sorted, 1, Len(sorted) - 1), b),
                sorted[Len(sorted)])

RECURSIVE sort_from(_, _, _)
sort_from(list, k, sorted) ==
    IF k > Len(list) THEN sorted
    ELSE sort_from(list, k + 1, insert_top_left(sorted, list[k]))

sort_top_left(list) == sort_from(list, 1, <<>>)

(* ---------------------------------------------------------------------- *)
(* extend_right                                                            *)
(* ---------------------------------------------------------------------- *)
\* a call of can_extend and what it returned
Called(temp, bb, bboxlist, vert) ==
    [temp |-> temp, bb |-> bb, bboxlist |-> bboxlist,
     res |-> can_extend(temp, bb, bboxlist, vert)]

\* extend_pass without the test against the other text bboxes
extend_pass_unchecked(list, k, width, vert, imgs) ==
    LET bb == list[k]
        temp == [bb EXCEPT !.x1 = width]
    IN  IF in_bbox(bb, imgs) THEN [list |-> list, calls |-> {}]
        ELSE IF intersects_bboxes(temp, vert \o imgs) THEN [list |-> list, calls |-> {}]
        ELSE [list |-> [list EXCEPT ![k] = temp], calls |-> {}]

\* extend_pass that cuts through images
extend_pass_through_images(list, k, width, vert, imgs) ==
    LET bb == list[k]
        temp == [bb EXCEPT !.x1 = width]
    IN  IF in_bbox(bb, imgs) THEN [list |-> list, calls |-> {}]
        ELSE IF intersects_bboxes(temp, vert) THEN [list |-> list, calls |-> {}]
        ELSE [list |-> IF can_extend(temp, bb, list, vert)
                       THEN [list EXCEPT ![k] = temp] ELSE list,
              calls |-> {Called(temp, bb, list, vert)}]

\* one pass of the loop of extend_right, for bb = list[k]: [list, calls]
extend_pass(list, k, width, vert, imgs) ==
    LET bb == list[k]
        temp == [bb EXCEPT !.x1 = width]
    IN  IF in_bbox(bb, imgs) THEN [list |-> list, calls |-> {}]
        ELSE IF intersects_bboxes(temp, vert \o imgs) THEN [list |-> list, calls |-> {}]
        ELSE [list |-> IF can_extend(temp, bb, list, vert)
                       THEN [list EXCEPT ![k] = temp] ELSE list,
              calls |-> {Called(temp, bb, list, vert)}]

RECURSIVE extend_from(_, _, _, _, _, _)
extend_from(list, k, width, vert, imgs, made) ==
    IF k > Len(list) THEN [list |-> list, calls |-> made]
    ELSE LET pass == extend_pass(list, k, width, vert, imgs)
         IN  extend_from(pass.list, k + 1, width, vert, imgs, made \cup pass.calls)

\* [list, calls]
extend_right(list, width, vert, imgs) ==
    LET done == extend_from(list, 1, width, vert, imgs, {})
    IN  [list |-> SelectSeq(done.list, LAMBDA b : b # None), calls |-> done.calls]

(* ---------------------------------------------------------------------- *)
(* 2. Join bboxes: one pass of the loop over the remaining bboxes          *)
(* ---------------------------------------------------------------------- *)
\* never join across columns
across_columns(bb, nbb) == nbb.x1 < bb.x0 \/ bb.x1 < nbb.x0

\* the first new block that bb can extend, 0 if there is none
RECURSIVE first_fit(_, _, _, _)
first_fit(bb, nbs, vert, j) ==
    IF j > Len(nbs) THEN 0
    ELSE IF across_columns(bb, nbs[j]) THEN first_fit(bb, nbs, vert, j + 1)
    ELSE IF can_extend(rect_or(bb, nbs[j]), nbs[j], nbs, vert) THEN j
    ELSE first_fit(bb, nbs, vert, j + 1)

\* join_pass that drops bb when the join is taken back
join_pass_dropping(nbs, old, k, vert) ==
    LET bb == old[k]
        fit == first_fit(bb, nbs, vert, 1)
        nbs1 == IF fit = 0 THEN Append(nbs, bb) ELSE nbs
        j == IF fit = 0 THEN Len(nbs1) ELSE fit
        temp == IF fit = 0 THEN nbs1[j] ELSE rect_or(bb, nbs[fit])
        check == can_extend(temp, bb, old, vert)
    IN  [nblocks |-> IF ~check THEN nbs1 ELSE [nbs1 EXCEPT ![j] = temp],
         calls |-> {Called(temp, bb, old, vert)}]

\* [nblocks, calls] after the pass for bb = old[k]
join_pass(nbs, old, k, vert) ==
    LET bb == old[k]
        fit == first_fit(bb, nbs, vert, 1)
        tried == {j \in 1 .. (IF fit = 0 THEN Len(nbs) ELSE fit) :
                    ~across_columns(bb, nbs[j])}
        nbs1 == IF fit = 0 THEN Append(nbs, bb) ELSE nbs
        j == IF fit = 0 THEN Len(nbs1) ELSE fit
        temp == IF fit = 0 THEN nbs1[j] ELSE rect_or(bb, nbs[fit])
        check == can_extend(temp, bb, old, vert)
    IN  [nblocks |-> IF ~check THEN Append(nbs1, bb) ELSE [nbs1 EXCEPT ![j] = temp],
         calls |-> {Called(rect_or(bb, nbs[m]), nbs[m], nbs, vert) : m \in tried}
                   \cup {Called(temp, bb, old, vert)}]

(* ---------------------------------------------------------------------- *)
(* clean_nblocks                                                           *)
(* ---------------------------------------------------------------------- *)
\* the bottoms of a row differ from the bottom of its first bbox by at most this
Tolerance == 10

remove_at(list, p) == SubSeq(list, 1, p - 1) \o SubSeq(list, p + 1, Len(list))

\* 1. the loop "for i in range(start, -1, -1)", at position p = i + 1; in its
\*    last pass nblocks[i - 1] is nblocks[-1], the last element
RECURSIVE remove_duplicates(_, _)
remove_duplicates(list, p) ==
    IF p < 1 THEN list
    ELSE LET bb1 == list[p]
             bb0 == IF p = 1 THEN list[Len(list)] ELSE list[p - 1]
         IN  IF bb0 = bb1 THEN remove_duplicates(remove_at(list, p), p - 1)
             ELSE remove_duplicates(list, p - 1)

\* sorted(..., key=lambda b: b.x0), stable
RECURSIVE insert_x0(_, _)
insert_x0(sorted, b) ==
    IF sorted = <<>> THEN <<b>>
    ELSE IF sorted[Len(sorted)].x0 <= b.x0 THEN Append(sorted, b)
    ELSE Append(insert_x0(SubSeq(sorted, 1, Len(sorted) - 1), b), sorted[Len(sorted)])

RECURSIVE sort_x0_from(_, _, _)
sort_x0_from(list, k, sorted) ==
    IF k > Len(list) THEN sorted
    ELSE sort_x0_from(list, k + 1, insert_x0(sorted, list[k]))

sort_x0(list) == sort_x0_from(list, 1, <<>>)

\* sort_segment of the slice nblocks[i0 : i1], one short
sort_segment_short(list, i0, i1) ==
    SubSeq(list, 1, i0 - 1) \o sort_x0(SubSeq(list, i0, i1 - 1)) \o SubSeq(list, i1, Len(list))

\* nblocks[i0 : i1 + 1] = sorted(nblocks[i0 : i1 + 1], ...), positions 1-based
sort_segment(list, i0, i1) ==
    SubSeq(list, 1, i0 - 1) \o sort_x0(SubSeq(list, i0, i1)) \o SubSeq(list, i1 + 1, Len(list))

\* 2. the loop "for i in range(1, len(nblocks))" at position k = i + 1, and the
\*    sort of the last segment: [nblocks, rows]
RECURSIVE repair_sequence(_, _, _, _, _, _)
repair_sequence(list, y1, i0, i1, k, segs) ==
    IF k > Len(list)
    THEN IF i1 > i0
         THEN [nblocks |-> sort_segment(list, i0, i1), rows |-> segs \cup {<<i0, i1>>}]
         ELSE [nblocks |-> list, rows |-> segs]
    ELSE LET b1 == list[k]
         IN  IF Abs(b1.y1 - y1) > Tolerance
             THEN IF i1 > i0
                  THEN repair_sequence(sort_segment(list, i0, i1), b1.y1, k, k, k + 1,
                                       segs \cup {<<i0, i1>>})
                  ELSE repair_sequence(list, b1.y1, k, k, k + 1, segs)
             ELSE repair_sequence(list, y1, i0, k, k + 1, segs)

\* [ok, nblocks, rows]; ok is FALSE when nblocks[0] raises IndexError
clean_nblocks(list) ==
    IF Len(list) < 2 THEN [ok |-> TRUE, nblocks |-> list, rows |-> {}]
    ELSE LET dedup == remove_duplicates(list, Len(list))
         IN  IF dedup = <<>> THEN [ok |-> FALSE, nblocks |-> dedup, rows |-> {}]
             ELSE LET r == repair_sequence(dedup, dedup[1].y1, 1, 0, 2, {})
                  IN  [ok |-> TRUE, nblocks |-> r.nblocks, rows |-> r.rows]

(* ---------------------------------------------------------------------- *)
(* Pages                                                                   *)
(* ---------------------------------------------------------------------- *)
Width == CHOOSE w \in XS : \A x \in XS : x <= w

\* horizontal spans: the left column, the right column, the full width
ColumnSpans == {<<0, 1>>, <<2, 3>>, <<0, Width>>}

\* bboxes of paragraphs in a column and of headings across the page
ProperRects ==
    {r \in [x0 : XS, y0 : YS, x1 : XS, y1 : YS] :
        /\ <<r.x0, r.x1>> \in ColumnSpans
        /\ r.y0 < r.y1
        /\ r.x1 - r.x0 = Width => r.y1 - r.y0 <= 6}

\* bboxes in the upper part of the page
UpperRects ==
    {r \in [x0 : XS, y0 : YS, x1 : XS, y1 : YS] :
        <<r.x0, r.x1>> \in ColumnSpans /\ r.y0 < r.y1 /\ r.y1 <= 12}

\* bboxes of images: in the middle band of the page, or over its upper part
ImageRects == {r \in UpperRects : r.y0 = 6 \/ r.x1 - r.x0 = Width}

\* bboxes without width
ThinRects == {Rect(x, 0, x, 6) : x \in {1, 2}}

Line(r, d, n) == [bbox |-> r, dir |-> d, text |-> n]
Block(r, ls) == [bbox |-> r, lines |-> ls]

\* a paragraph of one line of horizontal text
TextBlock(r) == Block(r, <<Line(r, <<1, 0>>, 2)>>)
\* a block of vertical text
VertBlock(r) == Block(r, <<Line(r, <<0, 1>>, 2)>>)
\* a block whose only line is one character
NoiseBlock(r) == Block(r, <<Line(r, <<1, 0>>, 1)>>)
\* a block without lines
NoLines(r) == Block(r, <<>>)
\* a block of a line of text and a stray character to its right
TwoLines(r) ==
    Block([r EXCEPT !.x1 = Width],
          <<Line(r, <<1, 0>>, 2), Line([r EXCEPT !.x0 = r.x1, !.x1 = Width], <<1, 0>>, 1)>>)

Page(bs, imgs) == [width |-> Width, images |-> imgs, blocks |-> bs]

\* blocks of pages of plain paragraphs
Paragraphs == {TextBlock(r) : r \in ProperRects}

\* paragraphs and degenerate blocks of pages with vertical text
MixedBlocks ==
    {TextBlock(r) : r \in UpperRects \cup ThinRects}
    \cup {NoiseBlock(Rect(2, 0, 3, 6)), NoLines(Rect(2, 0, 3, 6)), TwoLines(Rect(0, 0, 1, 6))}

\* no block of vertical text, or one
VerticalText == {<<>>} \cup {<<VertBlock(r)>> : r \in UpperRects}

\* pages of plain paragraphs
TextPage(p) ==
    \E n \in 0 .. MaxBlocks : \E bs \in [1 .. n -> Paragraphs] : p = Page(bs, <<>>)

\* pages with vertical text and degenerate blocks
MixedPage(p) ==
    \E n \in 0 .. MaxBlocks - 1 : \E bs \in [1 .. n -> MixedBlocks] :
        \E vs \in VerticalText : p = Page(vs \o bs, <<>>)

\* pages with one image
ImagePage(p) ==
    \E n \in 0 .. MaxBlocks - 1 : \E bs \in [1 .. n -> Paragraphs] :
        \E img \in ImageRects : p = Page(bs, <<img>>)

(* ---------------------------------------------------------------------- *)
(* column_boxes                                                            *)
(* ---------------------------------------------------------------------- *)
Init ==
    /\ \/ TextPage(page) /\ no_image_text = TRUE
       \/ MixedPage(page) /\ no_image_text = TRUE
       \/ ImagePage(page) /\ no_image_text \in BOOLEAN
    /\ pc = "identify"
    /\ img_bboxes = <<>>
    /\ vert_bboxes = <<>>
    /\ sorted_bboxes = <<>>
    /\ ext_bboxes = <<>>
    /\ bboxes = <<>>
    /\ i = 0
    /\ nblocks = <<>>
    /\ calls = {}
    /\ rows = {}
    /\ result = <<>>

\* lines 117-158: image bboxes, text and vertical bboxes, sort
IdentifyContent ==
    /\ pc = "identify"
    /\ LET made == make_bboxes(page.blocks, 1, page.images, no_image_text,
                               [vert |-> <<>>, bboxes |-> <<>>])
       IN  /\ img_bboxes' = page.images
           /\ vert_bboxes' = made.vert
           /\ sorted_bboxes' = sort_top_left(made.bboxes)
    /\ pc' = "extend"
    /\ calls' = {}
    /\ UNCHANGED <<page, no_image_text, ext_bboxes, bboxes, i, nblocks, rows, result>>

\* lines 161-163
ExtendRight ==
    /\ pc = "extend"
    /\ LET ext == extend_right(sorted_bboxes, page.width, vert_bboxes, img_bboxes)
       IN  /\ ext_bboxes' = ext.list
           /\ calls' = ext.calls
    /\ pc' = "join"
    /\ UNCHANGED <<page, no_image_text, img_bboxes, vert_bboxes, sorted_bboxes,
                   bboxes, i, nblocks, rows, result>>

\* lines 165-166
ReturnEmpty ==
    /\ pc = "join"
    /\ ext_bboxes = <<>>
    /\ result' = <<>>
    /\ calls' = {}
    /\ pc' = "done"
    /\ UNCHANGED <<page, no_image_text, img_bboxes, vert_bboxes, sorted_bboxes,
                   ext_bboxes, bboxes, i, nblocks, rows>>

\* lines 171-172
StartJoin ==
    /\ pc = "join"
    /\ ext_bboxes # <<>>
    /\ nblocks' = <<ext_bboxes[1]>>
    /\ bboxes' = Tail(ext_bboxes)
    /\ i' = 1
    /\ calls' = {}
    /\ pc' = "loop"
    /\ UNCHANGED <<page, no_image_text, img_bboxes, vert_bboxes, sorted_bboxes,
                   ext_bboxes, rows, result>>

\* lines 174-203, one pass
JoinPass ==
    /\ pc = "loop"
    /\ i <= Len(bboxes)
    /\ LET pass == join_pass(nblocks, bboxes, i, vert_bboxes)
       IN  /\ nblocks' = pass.nblocks
           /\ calls' = pass.calls
    /\ bboxes' = [bboxes EXCEPT ![i] = None]
    /\ i' = i + 1
    /\ UNCHANGED <<page, no_image_text, pc, img_bboxes, vert_bboxes, sorted_bboxes,
                   ext_bboxes, rows, result>>

\* lines 206-208
Clean ==
    /\ pc = "loop"
    /\ i > Len(bboxes)
    /\ LET c == clean_nblocks(nblocks)
       IN  IF c.ok
           THEN /\ result' = c.nblocks
                /\ rows' = c.rows
                /\ pc' = "done"
           ELSE /\ UNCHANGED <<result, rows>>
                /\ pc' = "error"
    /\ calls' = {}
    /\ UNCHANGED <<page, no_image_text, img_bboxes, vert_bboxes, sorted_bboxes,
                   ext_bboxes, bboxes, i, nblocks>>

Next ==
    \/ IdentifyContent
    \/ ExtendRight
    \/ ReturnEmpty
    \/ StartJoin
    \/ JoinPass
    \/ Clean

Spec == Init /\ [][Next]_vars

(* ---------------------------------------------------------------------- *)
(* Properties                                                              *)
(* ---------------------------------------------------------------------- *)
Disjoint(a, b) ==
    a.x0 >= a.x1 \/ a.y0 >= a.y1 \/ b.x0 >= b.x1 \/ b.y0 >= b.y1
    \/ a.x1 <= b.x0 \/ b.x1 <= a.x0 \/ a.y1 <= b.y0 \/ b.y1 <= a.y0

Inside(a, b) == b.x0 <= a.x0 /\ a.x1 <= b.x1 /\ b.y0 <= a.y0 /\ a.y1 <= b.y1

Range(list) == {list[k] : k \in 1 .. Len(list)}

Obstacles == Range(img_bboxes) \cup Range(vert_bboxes)

NearBottoms(a, b) == a.y1 - b.y1 <= Tolerance /\ b.y1 - a.y1 <= Tolerance

\* C1: no returned rectangle properly contains another one, and two returned
\* rectangles that intersect have near-equal bottoms.
C1_OutputsDisjoint ==
    pc = "done" =>
        \A k \in 1 .. Len(result) : \A m \in 1 .. Len(result) :
            k # m =>
                /\ ~(Inside(result[m], result[k]) /\ result[m] # result[k])
                /\ Disjoint(result[k], result[m]) \/ NearBottoms(result[k], result[m])

\* C2: of any two returned rectangles whose bottoms differ by at most 10, the
\* one with the smaller left coordinate comes first.
C2_AnyPairOrdered ==
    pc = "done" =>
        \A k \in 1 .. Len(result) : \A m \in 1 .. Len(result) :
            NearBottoms(result[k], result[m]) /\ result[k].x0 < result[m].x0 => k < m

\* C2 as amended: every row that the cleaning formed is ascending in the left
\* coordinate, and its bottoms are within 10 of the bottom of one of its
\* rectangles (the one that opened the row).
C2_RowsOrdered ==
    pc = "done" =>
        \A row \in rows :
            /\ 1 <= row[1] /\ row[1] < row[2] /\ row[2] <= Len(result)
            /\ \A k \in row[1] .. row[2] : \A m \in row[1] .. row[2] :
                   k < m => result[k].x0 <= result[m].x0
            /\ \E a \in row[1] .. row[2] : \A k \in row[1] .. row[2] :
                   NearBottoms(result[a], result[k])

\* a row whose rectangles the cleaning had to reorder
C2_Witness ==
    /\ pc = "done"
    /\ \E row \in rows : \E k \in row[1] .. row[2] - 1 :
           \E a \in 1 .. Len(nblocks) - 1 :
               nblocks[a] = result[k + 1] /\ nblocks[a + 1] = result[k]
               /\ result[k].x0 < result[k + 1].x0

\* C3: with no_image_text, no returned rectangle intersects an image
\* rectangle or the bbox of a block of vertical text.
C3_ObstacleRespect ==
    pc = "done" /\ no_image_text =>
        \A k \in 1 .. Len(result) : \A o \in Obstacles : Disjoint(result[k], o)

\* C4: the returned list is ascending in the top coordinate, ties in the
\* left coordinate.
C4_SortedTopLeft ==
    pc = "done" =>
        \A k \in 1 .. Len(result) - 1 :
            \/ result[k].y0 < result[k + 1].y0
            \/ result[k].y0 = result[k + 1].y0 /\ result[k].x0 <= result[k + 1].x0

\* C5: column_boxes never ends in an error, and a page without candidate
\* rectangles yields the empty list.
C5_RunsToCompletion ==
    /\ pc # "error"
    /\ pc = "done" /\ ext_bboxes = <<>> => result = <<>>

Horizontal(b) == Len(b.lines) > 0 /\ \A k \in 1 .. Len(b.lines) : b.lines[k].dir = <<1, 0>>

\* the page is two horizontal blocks l, r with the same vertical range, l left of r
SideBySide(l, r) ==
    /\ page.images = <<>>
    /\ Len(page.blocks) = 2
    /\ {page.blocks[1], page.blocks[2]} = {l, r}
    /\ Horizontal(l) /\ Horizontal(r)
    /\ l.bbox.y0 = r.bbox.y0 /\ l.bbox.y1 = r.bbox.y1
    /\ l.bbox.x1 < r.bbox.x0 /\ r.bbox.x0 <= r.bbox.x1 /\ r.bbox.x1 <= page.width

\* the text of block b has a bbox with an area, and it is the bbox of b
HasText(b) ==
    /\ b.bbox.x0 < b.bbox.x1 /\ b.bbox.y0 < b.bbox.y1
    /\ \A k \in 1 .. Len(b.lines) : b.lines[k].text > 1 /\ Inside(b.lines[k].bbox, b.bbox)
    /\ \A c \in {"x0", "y0", "x1", "y1"} : \E k \in 1 .. Len(b.lines) :
           b.lines[k].bbox[c] = b.bbox[c]

\* C6: two blocks side by side are returned as two rectangles, the left one
\* first and as it was, the right one extended to the page width.
C6_SideBySide ==
    pc = "done" =>
        \A l \in Range(page.blocks) : \A r \in Range(page.blocks) :
            SideBySide(l, r) => result = <<l.bbox, [r.bbox EXCEPT !.x1 = page.width]>>

\* C6 as amended: the same, for two blocks whose text has a bbox with an area.
C6_SideBySideWithText ==
    pc = "done" =>
        \A l \in Range(page.blocks) : \A r \in Range(page.blocks) :
            SideBySide(l, r) /\ HasText(l) /\ HasText(r)
                => result = <<l.bbox, [r.bbox EXCEPT !.x1 = page.width]>>

\* two paragraphs side by side, the right one short of the page border
C6_Witness ==
    /\ pc = "done"
    /\ \E l \in Range(page.blocks) : \E r \in Range(page.blocks) :
           SideBySide(l, r) /\ HasText(l) /\ HasText(r) /\ l.bbox.x0 < l.bbox.x1

IntersectsVert(temp) == \E v \in Range(vert_bboxes) : ~Disjoint(temp, v)

\* C7: can_extend accepts temp exactly when every rectangle b of the list
\* that is not consumed is disjoint from temp, or is bb, or temp intersects
\* vertical text.
C7_AcceptsWithEscape ==
    \A c \in calls :
        c.res <=> \A b \in Range(c.bboxlist) \ {None} :
                      Disjoint(c.temp, b) \/ b = c.bb \/ IntersectsVert(c.temp)

\* C7 as amended: the list of a call is not empty, and can_extend accepts
\* temp exactly when temp intersects no vertical text and every rectangle b
\* of the list is consumed, or equal to bb, or disjoint from temp.
C7_RejectsOnVertical ==
    \A c \in calls :
        /\ c.bboxlist # <<>>
        /\ c.res <=> /\ ~IntersectsVert(c.temp)
                     /\ \A b \in Range(c.bboxlist) :
                            b = None \/ b = c.bb \/ Disjoint(c.temp, b)

\* a trial rectangle over vertical text is rejected, though it meets no
\* other rectangle of the list
C7_Witness ==
    \E c \in calls :
        /\ ~c.res
        /\ IntersectsVert(c.temp)
        /\ \A b \in Range(c.bboxlist) : b = None \/ b = c.bb \/ Disjoint(c.temp, b)

\* C8: the cleaned list holds no rectangle twice, holds every rectangle of
\* the list it was given, and lost only rectangles equal to their predecessor.
C8_CleanRemovesDuplicates ==
    pc = "done" =>
        /\ \A k \in 1 .. Len(result) : \A m \in 1 .. Len(result) :
               k # m => result[k] # result[m]
        /\ Range(result) = Range(nblocks)
        /\ Len(nblocks) - Len(result)
               = Cardinality({k \in 2 .. Len(nblocks) : nblocks[k] = nblocks[k - 1]})

\* C9: extend_right keeps the length and the order of the list and x0, y0,
\* y1 of every rectangle; x1 is kept or becomes the page width; a rectangle
\* inside an image is kept; a rectangle whose x1 changed meets no obstacle.
C9_ExtendRightFrame ==
    pc \notin {"identify", "extend"} =>
        /\ Len(ext_bboxes) = Len(sorted_bboxes)
        /\ \A k \in 1 .. Len(sorted_bboxes) :
               LET old == sorted_bboxes[k]
                   new == ext_bboxes[k]
               IN  /\ new.x0 = old.x0 /\ new.y0 = old.y0 /\ new.y1 = old.y1
                   /\ new.x1 = old.x1 \/ new.x1 = page.width
                   /\ (\E img \in Range(img_bboxes) : Inside(old, img)) => new = old
                   /\ new.x1 # old.x1 => \A o \in Obstacles : Disjoint(new, o)

\* a page where one rectangle was extended and another one, short of the
\* page border, lies inside an image
C9_Witness ==
    /\ pc = "join"
    /\ \E k \in 1 .. Len(sorted_bboxes) : ext_bboxes[k].x1 # sorted_bboxes[k].x1
    /\ \E k \in 1 .. Len(sorted_bboxes) :
           /\ sorted_bboxes[k].x1 < page.width
           /\ \E img \in Range(img_bboxes) : Inside(sorted_bboxes[k], img)

\* C10: every rectangle that left extend_right lies in a returned rectangle.
C10_NoTextLost ==
    pc = "done" =>
        \A k \in 1 .. Len(ext_bboxes) :
            \E m \in 1 .. Len(result) : Inside(ext_bboxes[k], result[m])

\* a page where a bbox went into a union next to another column
C10_Witness ==
    /\ pc = "done"
    /\ Len(result) >= 2
    /\ \E k \in 1 .. Len(ext_bboxes) : ext_bboxes[k] \notin Range(result)

====
